---------------------------- MODULE Spec2Model ----------------------------
(***************************************************************************)
(* Model of the quad search engine of src/src/main.rs.                     *)
(*                                                                         *)
(* A hand (u128 bit vector) is modelled as the set of its set bit          *)
(* positions: `hand | (1 << i)` is hand \cup {i}, `(hand >> i) & 1 == 1`   *)
(* is i \in hand, `hand.checked_ilog2()` is the largest member.            *)
(* The recursion of search_inner / search_inner_multi is modelled by an    *)
(* explicit stack of pending calls (frames); one step enters one call.     *)
(*                                                                         *)
(* Spec runs one command on one thread: `search`, or `search-all` with a   *)
(* single worker, the engine stepping call by call.  SpecAll runs          *)
(* `search-all` with several workers; there search_multi, which touches    *)
(* only the worker's own data, is one step, and usize is UsizeBits wide.   *)
(***************************************************************************)
EXTENDS Integers, Sequences, FiniteSets, TLC

\* ------------------------------------------------------------------ bounds
MaxDeck == 10        \* largest in-range deck size tried
MaxTarget == 3       \* largest target_quads tried
MaxOverHand == 2     \* largest hand size tried together with an oversize deck
MaxThreads == 2      \* largest available_parallelism tried
UsizeBits == 2       \* width of the scaled-down usize of the claim counter
MaxDeckAll == 2      \* largest deck in the multi-threaded specification

\* -------------------------------------------------------- program constants
DeckLimit == 128     \* main: `if cards_in_deck > 128`
TableSize == 128     \* `differences: [u8; 128]`
NoTarget == -1       \* target_quads == None
NoMax == -1          \* max_cards_in_hand == None

UsizeMod == 2 ^ UsizeBits

VARIABLES
  pc,                     \* position of main
  command,                \* "none", "Search", "SearchAll"
  cards_in_deck,          \* command argument
  cards_in_hand,          \* Search argument / hand size claimed by the worker
  target_quads,           \* Search argument (NoTarget for None)
  initial_cards_in_hand,  \* SearchAll argument
  max_cards_in_hand,      \* SearchAll: max_cards_in_hand.unwrap_or(cards_in_deck)
  cards_in_hand_atomic,   \* SearchAll: the shared AtomicUsize
  stack,                  \* pending engine calls, innermost first
  call,                   \* search: engine calls made; search_multi: calls made in this loop round
  deck_cur,               \* search_multi: its (halved) cards_in_deck
  best_score,             \* search: accumulator
  best_hand,              \* search: accumulator
  best_scores,            \* search_multi: ret, entry n at index n+1
  ret,                    \* result of the outermost search_inner call: "running", "Some", "None"
  hit,                    \* `real_quads == target` was true for a candidate of the current outermost call
  evaluated,              \* candidates (hand, quads2) computed by the last engine step
  output,                 \* what main printed
  threads,                \* multi-threaded: number of workers spawned
  wpc,                    \* multi-threaded: position of each worker
  whand,                  \* multi-threaded: each worker's claimed cards_in_hand
  wres,                   \* multi-threaded: each worker's res
  print_guard,            \* multi-threaded: holder of the Mutex (0 = free)
  claims,                 \* multi-threaded: how often each value was claimed within range (saturates at 2)
  prints                  \* multi-threaded: how often each hand size was printed (saturates at 2)

engine_vars == <<stack, call, deck_cur, best_score, best_hand, best_scores, ret, hit, evaluated>>
arg_vars == <<command, cards_in_deck, target_quads, initial_cards_in_hand, max_cards_in_hand>>
thread_vars == <<threads, wpc, whand, wres, print_guard, claims, prints>>
vars == <<pc, arg_vars, cards_in_hand, cards_in_hand_atomic, engine_vars, output, thread_vars>>

\* ----------------------------------------------------------------- helpers
Max(S) == CHOOSE x \in S : \A y \in S : y <= x
Min2(a, b) == IF a < b THEN a ELSE b

RECURSIVE Xor(_, _)
\* bitwise XOR of two naturals (`i ^ j`)
Xor(a, b) ==
  IF a = 0 THEN b
  ELSE IF b = 0 THEN a
  ELSE (((a % 2) + (b % 2)) % 2) + (2 * Xor(a \div 2, b \div 2))

RECURSIVE int_ilog2(_)
\* u32::checked_ilog2().unwrap_or(0)
int_ilog2(n) == IF n <= 1 THEN 0 ELSE 1 + int_ilog2(n \div 2)

\* u128::checked_ilog2().unwrap_or(0) of the bit vector
hand_ilog2(hand) == IF hand = {} THEN 0 ELSE Max(hand)

max_useful_card_undoubled(hand) == 2 ^ int_ilog2(hand_ilog2(hand))

\* lines 50-58
max_useful_card(hand) == (2 ^ int_ilog2(hand_ilog2(hand))) * 2

\* lines 47-49 and 59-61: the two early returns
returns_early(f) ==
  \/ f.next_index + f.cards_to_add > f.max_index
  \/ f.cards_to_add = 0
  \/ f.next_index > max_useful_card(f.hand)

\* what main or a worker printed last: the message and the table rows
Printed(message, rows) == [message |-> message, rows |-> rows]

ZeroTable == [d \in 0..(TableSize - 1) |-> 0]

\* the arguments of an outermost engine call
RootFrame(min_diff_count, max_diff_count, max_index, hand_param, cards_to_add) ==
  [hand |-> {}, differences |-> ZeroTable,
   min_diff_count |-> min_diff_count, max_diff_count |-> max_diff_count,
   next_index |-> 0, max_index |-> max_index,
   cards_in_hand |-> hand_param, cards_to_add |-> cards_to_add, quads |-> 0]

bump_forgotten(differences2, difference) == differences2

\* line 74: differences2[difference] += 1
bump(differences2, difference) == [differences2 EXCEPT ![difference] = @ + 1]

RECURSIVE include_loop(_, _, _, _)
\* lines 66-81: the loop from iteration i on, with its break
include_loop(f, i, differences2, quads2) ==
  IF i >= f.next_index
    THEN [differences2 |-> differences2, quads2 |-> quads2, good |-> TRUE]
    ELSE IF i \in f.hand
      THEN LET difference == Xor(i, f.next_index)
               q == quads2 + differences2[difference]
               d == bump(differences2, difference)
           IN IF d[difference] > f.max_diff_count
                THEN [differences2 |-> d, quads2 |-> q, good |-> FALSE]
                ELSE include_loop(f, i + 1, d, q)
      ELSE include_loop(f, i + 1, differences2, quads2)

\* lines 87-100: the arguments of the include call
include_frame(f, inc) ==
  [f EXCEPT !.hand = f.hand \cup {f.next_index}, !.differences = inc.differences2,
            !.next_index = f.next_index + 1, !.cards_to_add = f.cards_to_add - 1,
            !.quads = inc.quads2]

\* lines 104-117: the arguments of the skip call
skip_frame(f) == [f EXCEPT !.next_index = f.next_index + 1]

\* line 102
skip_allowed(f) == f.next_index >= f.min_diff_count * 2

\* line 86: is_none_or(|target| quads2 <= target * 3)
within_target(quads2, target) == target = NoTarget \/ quads2 <= target * 3

\* lines 62-118: the calls made by an Extend frame, in call order
extend_calls(f, target) ==
  LET inc == include_loop(f, 0, f.differences, f.quads)
  IN (IF inc.good /\ within_target(inc.quads2, target) THEN <<include_frame(f, inc)>> ELSE <<>>)
     \o (IF skip_allowed(f) THEN <<skip_frame(f)>> ELSE <<>>)

\* line 121: the candidates of a Finalize frame
candidates(f) == f.next_index .. (Min2(f.max_index, max_useful_card(f.hand) + 1) - 1)

RECURSIVE sum_differences(_, _, _)
\* lines 123-127: the sum over i in i..next_index-1
sum_differences(f, j, i) ==
  IF i >= f.next_index THEN 0
  ELSE (IF i \in f.hand THEN f.differences[Xor(i, j)] ELSE 0) + sum_differences(f, j, i + 1)

candidate_quads_from_one(f, j) == f.quads + sum_differences(f, j, 1)

\* lines 122-127: quads2 of candidate j
candidate_quads(f, j) == f.quads + sum_differences(f, j, 0)

\* line 129
real_quads(quads2) == quads2 \div 3

RECURSIVE finalize_max(_, _, _)
\* lines 121-144 with target_quads == None, from candidate j on; acc = (best_score, best_hand)
finalize_max(f, j, acc) ==
  IF j \notin candidates(f) THEN acc
  ELSE LET rq == real_quads(candidate_quads(f, j))
       IN finalize_max(f, j + 1,
            IF rq > acc.best_score
              THEN [best_score |-> rq, best_hand |-> f.hand \cup {j}]
              ELSE acc)

\* line 252: best_scores.extend((0..=real_quads - len).map(|_| max_index))
extend_scores(scores, rq, max_index) ==
  IF rq >= Len(scores)
    THEN scores \o [k \in 1..(rq - Len(scores) + 1) |-> max_index]
    ELSE scores

\* lines 254-256: best_scores[real_quads] = min(best_scores[real_quads], j)
lower_score(scores, rq, j) ==
  IF scores[rq + 1] > j THEN [scores EXCEPT ![rq + 1] = j] ELSE scores

RECURSIVE finalize_multi(_, _, _)
\* lines 241-257, from candidate j on
finalize_multi(f, j, scores) ==
  IF j \notin candidates(f) THEN scores
  ELSE LET rq == real_quads(candidate_quads(f, j))
       IN finalize_multi(f, j + 1, lower_score(extend_scores(scores, rq, f.max_index), rq, j))

\* lines 365-400: the arguments of the k-th engine call of a round of search_multi
multi_root(k, deck, hand) ==
  CASE k = 1 -> RootFrame(1, 1, deck, 0, hand)
    [] k = 2 -> RootFrame(2, 2, deck, 0, hand)
    [] OTHER -> RootFrame(3, deck \div 2, deck, 0, hand)

\* line 364: the loop condition of search_multi
multi_continues(deck, hand) == deck > 0 /\ deck >= hand

RECURSIVE search_inner_multi_result(_, _)
\* search_inner_multi, lines 161-259, as a function of its arguments: the
\* value of best_scores when the call returns
search_inner_multi_result(f, scores) ==
  IF returns_early(f) THEN scores
  ELSE IF f.cards_to_add > 1
    THEN LET cs == extend_calls(f, NoTarget)
         IN IF Len(cs) = 0 THEN scores
            ELSE IF Len(cs) = 1 THEN search_inner_multi_result(cs[1], scores)
            ELSE search_inner_multi_result(cs[2], search_inner_multi_result(cs[1], scores))
    ELSE finalize_multi(f, f.next_index, scores)

RECURSIVE search_multi_result(_, _, _)
\* search_multi, lines 362-406, as a function of its arguments
search_multi_result(deck, hand, scores) ==
  IF multi_continues(deck, hand)
    THEN search_multi_result(deck \div 2, hand,
           search_inner_multi_result(multi_root(3, deck, hand),
             search_inner_multi_result(multi_root(2, deck, hand),
               search_inner_multi_result(multi_root(1, deck, hand), scores))))
    ELSE scores

\* search_multi(deck, hand) for the arguments of the multi-threaded
\* specification, computed once
search_multi_table ==
  [deck \in 0..MaxDeckAll |->
     [hand \in 0..(UsizeMod - 1) |-> search_multi_result(deck, hand, <<>>)]]

\* lines 497-502: the lines a worker prints for one hand size
printed_rows(res, deck) == {<<j - 1, res[j]>> : j \in {k \in 1..Len(res) : res[k] < deck}}

\* line 491: fetch_add(1, Relaxed) wraps around at the width of usize
fetch_add(counter, modulus) == (counter + 1) % modulus

\* the usize of the single-threaded specification, wide enough not to wrap
UsizeWide == 2 ^ 20

\* ------------------------------------------------------------ input ranges
Decks == (0..MaxDeck) \cup {DeckLimit + 1}
Hands == 0..(MaxDeck + 1)
Targets == {NoTarget} \cup (0..MaxTarget)

Init ==
  /\ pc = "main"
  /\ command = "none"
  /\ cards_in_deck = 0
  /\ cards_in_hand = 0
  /\ target_quads = NoTarget
  /\ initial_cards_in_hand = 0
  /\ max_cards_in_hand = 0
  /\ cards_in_hand_atomic = 0
  /\ stack = <<>>
  /\ call = 0
  /\ deck_cur = 0
  /\ best_score = 0
  /\ best_hand = {}
  /\ best_scores = <<>>
  /\ ret = "running"
  /\ hit = FALSE
  /\ evaluated = {}
  /\ output = Printed("none", {})
  /\ threads = 0
  /\ wpc = <<>>
  /\ whand = <<>>
  /\ wres = <<>>
  /\ print_guard = 0
  /\ claims = <<>>
  /\ prints = <<>>

\* ------------------------------------------------------------------ search
\* main, Commands::Search, lines 442-456, and the start of search, lines 269-275
main_Search ==
  /\ pc = "main"
  /\ \E deck \in Decks, hand \in Hands, target \in Targets :
       /\ command' = "Search"
       /\ cards_in_deck' = deck
       /\ cards_in_hand' = hand
       /\ target_quads' = target
       /\ IF deck > DeckLimit
            THEN /\ output' = Printed("The maximum supported deck size is 128.", {})
                 /\ pc' = "done"
                 /\ UNCHANGED <<best_score, best_hand>>
            ELSE IF hand > deck
              THEN /\ output' = Printed("The requested hand is bigger than the deck.", {})
                   /\ pc' = "done"
                   /\ UNCHANGED <<best_score, best_hand>>
              ELSE /\ output' = output
                   /\ pc' = "search"
                   /\ best_hand' = 0..(hand - 1)
                   /\ best_score' = IF target = NoTarget THEN 0 ELSE deck
  /\ UNCHANGED <<initial_cards_in_hand, max_cards_in_hand, cards_in_hand_atomic,
                 stack, call, deck_cur, best_scores, ret, hit, evaluated, thread_vars>>

\* lines 304-351: which of the three engine calls search makes
search_makes(k) ==
  CASE k = 1 -> target_quads # NoTarget /\ target_quads = 0
    [] k = 2 -> target_quads # NoTarget /\ target_quads <= (cards_in_hand * (cards_in_hand + 1)) \div 12
    [] OTHER -> TRUE

\* lines 306-351: the arguments of the k-th engine call of search
search_root(k) ==
  CASE k = 1 -> RootFrame(1, 1, cards_in_deck, cards_in_hand, cards_in_hand)
    [] k = 2 -> RootFrame(2, 2, cards_in_deck, cards_in_hand, cards_in_hand)
    [] OTHER -> RootFrame(3, cards_in_deck \div 2, cards_in_deck, cards_in_hand, cards_in_hand)

\* search, lines 304-352: make the next engine call, or return
search ==
  /\ pc = "search"
  /\ stack = <<>>
  /\ IF \E k \in (call + 1)..3 : search_makes(k)
       THEN LET k == CHOOSE k \in (call + 1)..3 :
                       search_makes(k) /\ \A m \in (call + 1)..(k - 1) : ~search_makes(m)
            IN /\ stack' = <<search_root(k)>>
               /\ call' = k
               /\ ret' = "running"
               /\ hit' = FALSE
               /\ pc' = pc
       ELSE /\ pc' = "report"
            /\ UNCHANGED <<stack, call, ret, hit>>
  /\ evaluated' = {}
  /\ UNCHANGED <<arg_vars, cards_in_hand, cards_in_hand_atomic, deck_cur,
                 best_score, best_hand, best_scores, output, thread_vars>>

\* search_inner, lines 32-147: one call is entered
search_inner ==
  /\ pc = "search"
  /\ stack # <<>>
  /\ LET f == Head(stack)
         rest == Tail(stack)
     IN IF returns_early(f)
          THEN /\ stack' = rest
               /\ ret' = IF rest = <<>> THEN "Some" ELSE ret
               /\ evaluated' = {}
               /\ UNCHANGED <<best_score, best_hand, hit>>
          ELSE IF f.cards_to_add > 1
            THEN /\ stack' = extend_calls(f, target_quads) \o rest
                 /\ ret' = IF stack' = <<>> THEN "Some" ELSE ret
                 /\ evaluated' = {}
                 /\ UNCHANGED <<best_score, best_hand, hit>>
            ELSE IF target_quads = NoTarget
              THEN LET acc == finalize_max(f, f.next_index,
                                [best_score |-> best_score, best_hand |-> best_hand])
                   IN /\ best_score' = acc.best_score
                      /\ best_hand' = acc.best_hand
                      /\ evaluated' = {[hand |-> f.hand \cup {j}, quads2 |-> candidate_quads(f, j)] :
                                         j \in candidates(f)}
                      /\ stack' = rest
                      /\ ret' = IF rest = <<>> THEN "Some" ELSE ret
                      /\ hit' = hit
              ELSE IF candidates(f) = {}
                THEN /\ stack' = rest
                     /\ ret' = IF rest = <<>> THEN "Some" ELSE ret
                     /\ evaluated' = {}
                     /\ UNCHANGED <<best_score, best_hand, hit>>
                ELSE LET j == f.next_index
                         quads2 == candidate_quads(f, j)
                         matches == real_quads(quads2) = target_quads
                     IN /\ IF matches /\ j < best_score
                             THEN /\ best_score' = j
                                  /\ best_hand' = f.hand \cup {j}
                             ELSE UNCHANGED <<best_score, best_hand>>
                        /\ hit' = (hit \/ matches)
                        /\ evaluated' = {[hand |-> f.hand \cup {j}, quads2 |-> quads2]}
                        \* line 137: `return None`, propagated by every `?`
                        /\ stack' = <<>>
                        /\ ret' = "None"
  /\ UNCHANGED <<pc, arg_vars, cards_in_hand, cards_in_hand_atomic, call, deck_cur,
                 best_scores, output, thread_vars>>

\* main, lines 457-467
main_report ==
  /\ pc = "report"
  /\ output' = Printed(IF target_quads = NoTarget THEN "Max quads"
                        ELSE IF best_score > 0 THEN "Found a hand."
                        ELSE "No hand found.", {})
  /\ pc' = "done"
  /\ UNCHANGED <<arg_vars, cards_in_hand, cards_in_hand_atomic, engine_vars, thread_vars>>

\* -------------------------------------------------- search-all, one worker
\* main, Commands::SearchAll, lines 476-490, with available_parallelism() = 1
main_SearchAll ==
  /\ pc = "main"
  /\ \E deck \in Decks, initial \in Hands, max \in {NoMax} \cup Hands :
       /\ deck > DeckLimit => (initial <= MaxOverHand /\ max \in 0..MaxOverHand)
       /\ command' = "SearchAll"
       /\ cards_in_deck' = deck
       /\ initial_cards_in_hand' = initial
       /\ max_cards_in_hand' = IF max = NoMax THEN deck ELSE max
       /\ cards_in_hand_atomic' = initial
  /\ pc' = "claim"
  /\ UNCHANGED <<target_quads, cards_in_hand, engine_vars, output, thread_vars>>

\* lines 491-495: claim a hand size, leave the loop or call search_multi
worker_claim ==
  /\ pc = "claim"
  /\ cards_in_hand' = cards_in_hand_atomic
  /\ cards_in_hand_atomic' = fetch_add(cards_in_hand_atomic, UsizeWide)
  /\ IF cards_in_hand' > max_cards_in_hand
       THEN /\ pc' = "done"
            /\ UNCHANGED <<best_scores, deck_cur, call>>
       ELSE /\ pc' = "search_multi"
            /\ best_scores' = <<>>
            /\ deck_cur' = cards_in_deck
            /\ call' = 0
  /\ evaluated' = {}
  /\ UNCHANGED <<arg_vars, stack, best_score, best_hand, ret, hit, output, thread_vars>>

\* search_multi, lines 362-406: make the next engine call, halve the deck
\* after the third, or return
search_multi ==
  /\ pc = "search_multi"
  /\ stack = <<>>
  /\ LET deck == IF call = 3 THEN deck_cur \div 2 ELSE deck_cur
         k == IF call = 3 THEN 1 ELSE call + 1
     IN /\ deck_cur' = deck
        /\ IF k = 1 /\ ~multi_continues(deck, cards_in_hand)
             THEN /\ pc' = "print"
                  /\ call' = 0
                  /\ stack' = stack
             ELSE /\ pc' = pc
                  /\ call' = k
                  /\ stack' = <<multi_root(k, deck, cards_in_hand)>>
  /\ evaluated' = {}
  /\ UNCHANGED <<arg_vars, cards_in_hand, cards_in_hand_atomic, best_score, best_hand,
                 best_scores, ret, hit, output, thread_vars>>

\* search_inner_multi, lines 161-259: one call is entered
search_inner_multi ==
  /\ pc = "search_multi"
  /\ stack # <<>>
  /\ LET f == Head(stack)
         rest == Tail(stack)
     IN IF returns_early(f)
          THEN /\ stack' = rest
               /\ evaluated' = {}
               /\ best_scores' = best_scores
          ELSE IF f.cards_to_add > 1
            THEN /\ stack' = extend_calls(f, NoTarget) \o rest
                 /\ evaluated' = {}
                 /\ best_scores' = best_scores
            ELSE /\ best_scores' = finalize_multi(f, f.next_index, best_scores)
                 /\ evaluated' = {[hand |-> f.hand \cup {j}, quads2 |-> candidate_quads(f, j)] :
                                    j \in candidates(f)}
                 /\ stack' = rest
  /\ UNCHANGED <<pc, arg_vars, cards_in_hand, cards_in_hand_atomic, call, deck_cur,
                 best_score, best_hand, ret, hit, output, thread_vars>>

\* lines 496-503: print the table under the lock, then loop
worker_print ==
  /\ pc = "print"
  /\ output' = Printed("Hand size", printed_rows(best_scores, cards_in_deck))
  /\ pc' = "claim"
  /\ UNCHANGED <<arg_vars, cards_in_hand, cards_in_hand_atomic, engine_vars, thread_vars>>

Next ==
  \/ main_Search
  \/ search
  \/ search_inner
  \/ main_report
  \/ main_SearchAll
  \/ worker_claim
  \/ search_multi
  \/ search_inner_multi
  \/ worker_print

Spec == Init /\ [][Next]_vars

\* ------------------------------------------- search-all, several workers
\* saturating count of the bookkeeping variables claims and prints
Counted(n) == IF n >= 2 THEN 2 ELSE n + 1

\* main, Commands::SearchAll, lines 476-490: the workers are spawned
main_SearchAll_spawn ==
  /\ pc = "main"
  /\ \E deck \in 0..MaxDeckAll, initial \in 0..(UsizeMod - 1),
        max \in {NoMax} \cup (0..(UsizeMod - 1)), n \in 1..MaxThreads :
       /\ command' = "SearchAll"
       /\ cards_in_deck' = deck
       /\ initial_cards_in_hand' = initial
       /\ max_cards_in_hand' = IF max = NoMax THEN deck ELSE max
       /\ cards_in_hand_atomic' = initial
       /\ threads' = n
       /\ wpc' = [w \in 1..n |-> "claim"]
       /\ whand' = [w \in 1..n |-> 0]
       /\ wres' = [w \in 1..n |-> <<>>]
  /\ print_guard' = 0
  /\ claims' = [v \in 0..(UsizeMod - 1) |-> 0]
  /\ prints' = [v \in 0..(UsizeMod - 1) |-> 0]
  /\ pc' = "scope"
  /\ UNCHANGED <<target_quads, cards_in_hand, engine_vars, output>>

\* lines 491-494: worker w claims a hand size and leaves the loop if it is
\* above max_cards_in_hand
thread_claim(w) ==
  /\ pc = "scope"
  /\ w \in 1..threads
  /\ wpc[w] = "claim"
  /\ whand' = [whand EXCEPT ![w] = cards_in_hand_atomic]
  /\ cards_in_hand_atomic' = fetch_add(cards_in_hand_atomic, UsizeMod)
  /\ IF cards_in_hand_atomic > max_cards_in_hand
       THEN /\ wpc' = [wpc EXCEPT ![w] = "done"]
            /\ claims' = claims
       ELSE /\ wpc' = [wpc EXCEPT ![w] = "search"]
            /\ claims' = [claims EXCEPT ![cards_in_hand_atomic] = Counted(@)]
  /\ UNCHANGED <<pc, arg_vars, cards_in_hand, engine_vars, output,
                 threads, wres, print_guard, prints>>

\* line 495: worker w runs search_multi on its own data
thread_search(w) ==
  /\ pc = "scope"
  /\ w \in 1..threads
  /\ wpc[w] = "search"
  /\ wres' = [wres EXCEPT ![w] = search_multi_table[cards_in_deck][whand[w]]]
  /\ wpc' = [wpc EXCEPT ![w] = "lock"]
  /\ UNCHANGED <<pc, arg_vars, cards_in_hand, cards_in_hand_atomic, engine_vars, output,
                 threads, whand, print_guard, claims, prints>>

\* line 496: print_guard.lock()
thread_lock(w) ==
  /\ pc = "scope"
  /\ w \in 1..threads
  /\ wpc[w] = "lock"
  /\ print_guard = 0
  /\ print_guard' = w
  /\ wpc' = [wpc EXCEPT ![w] = "print"]
  /\ UNCHANGED <<pc, arg_vars, cards_in_hand, cards_in_hand_atomic, engine_vars, output,
                 threads, whand, wres, claims, prints>>

\* lines 497-503: print the table, drop the guard, loop
thread_print(w) ==
  /\ pc = "scope"
  /\ w \in 1..threads
  /\ wpc[w] = "print"
  /\ output' = Printed("Hand size", printed_rows(wres[w], cards_in_deck))
  /\ prints' = [prints EXCEPT ![whand[w]] = Counted(@)]
  /\ print_guard' = 0
  /\ wpc' = [wpc EXCEPT ![w] = "claim"]
  /\ UNCHANGED <<pc, arg_vars, cards_in_hand, cards_in_hand_atomic, engine_vars,
                 threads, whand, wres, claims>>

\* line 506: thread::scope returns once every worker has finished
scope_join ==
  /\ pc = "scope"
  /\ \A w \in 1..threads : wpc[w] = "done"
  /\ pc' = "done"
  /\ UNCHANGED <<arg_vars, cards_in_hand, cards_in_hand_atomic, engine_vars, output,
                 thread_vars>>

thread_step(w) == thread_claim(w) \/ thread_search(w) \/ thread_lock(w) \/ thread_print(w)

NextAll ==
  \/ main_SearchAll_spawn
  \/ \E w \in 1..threads : thread_claim(w)
  \/ \E w \in 1..threads : thread_search(w)
  \/ \E w \in 1..threads : thread_lock(w)
  \/ \E w \in 1..threads : thread_print(w)
  \/ scope_join

SpecAll == Init /\ [][NextAll]_vars

\* every spawned thread keeps being scheduled, and main runs
SpecAllFair ==
  /\ SpecAll
  /\ WF_vars(main_SearchAll_spawn)
  /\ WF_vars(scope_join)
  /\ \A w \in 1..MaxThreads : WF_vars(thread_step(w))

\* ------------------------------------------------ brute-force reference
\* Q is a quad: four cards that split into two pairs of equal XOR
IsQuad(Q) ==
  /\ Cardinality(Q) = 4
  /\ \E a, b \in Q : /\ a < b
                     /\ \E c, d \in Q \ {a, b} : c < d /\ Xor(a, b) = Xor(c, d)

\* the number of quads of hand H, by enumeration of its 4-element subsets
QuadCount(H) == Cardinality({Q \in SUBSET H : IsQuad(Q)})

\* QuadCount of every hand over the in-range decks, computed once
QuadTable == [H \in SUBSET (0..MaxDeck) |-> QuadCount(H)]

Quads(H) == IF H \subseteq 0..MaxDeck THEN QuadTable[H] ELSE QuadCount(H)

\* all hands of `hand` cards from a deck of `deck` cards
HandsOf(deck, hand) == {H \in SUBSET (0..(deck - 1)) : Cardinality(H) = hand}

\* the number of unordered pairs of H whose XOR is d
PairCount(H, d) == Cardinality({a \in H : \E b \in H : a < b /\ Xor(a, b) = d})

RECURSIVE SumTable(_, _, _)
\* the sum of the entries lo..hi of table t
SumTable(t, lo, hi) ==
  IF lo > hi THEN 0
  ELSE IF lo = hi THEN t[lo]
  ELSE LET mid == (lo + hi) \div 2
       IN SumTable(t, lo, mid) + SumTable(t, mid + 1, hi)

\* ------------------------------------------------------------------ claims

\* C1: search_inner returns None if and only if target_quads is Some and a
\* Finalize candidate whose true quad count equals the target was examined;
\* otherwise it returns Some(()).
C1_StopSignalOnlyOnMatch ==
  (command = "Search" /\ ret # "running") =>
     ((ret = "None") <=> (target_quads # NoTarget /\ hit))

\* C2: in maximize mode the score returned by search equals the largest
\* brute-force quad count over all hands of cards_in_hand cards of the deck;
\* hand size 4 in a deck of 8 gives exactly 1.
C2_MaximizeIsBruteForceMax ==
  (pc = "report" /\ target_quads = NoTarget) =>
     /\ best_score = Max({Quads(H) : H \in HandsOf(cards_in_deck, cards_in_hand)})
     /\ (cards_in_hand = 4 /\ cards_in_deck = 8) => best_score = 1

C2_Witness ==
  /\ pc = "report" /\ target_quads = NoTarget
  /\ cards_in_hand = 4 /\ cards_in_deck = 8 /\ best_score = 1

\* C3: in exact-target mode, if some hand of the deck has exactly target
\* quads, search returns a hand of cards_in_hand cards with exactly target
\* quads and best_score is that hand's highest card.
C3_ExactTargetFindsHand ==
  (/\ pc = "report" /\ target_quads # NoTarget /\ cards_in_hand >= 1
   /\ \E H \in HandsOf(cards_in_deck, cards_in_hand) : Quads(H) = target_quads) =>
     /\ Cardinality(best_hand) = cards_in_hand
     /\ Quads(best_hand) = target_quads
     /\ best_score = Max(best_hand)

\* C4: search_multi returns a table whose entry n is the lowest possible
\* highest card over all hands with exactly n quads when such a hand exists
\* and the sentinel cards_in_deck when none exists; no hand has a quad count
\* at or beyond the table's length.  (Stated for the decks up to MaxDeck,
\* whose hands are enumerated.)
C4_MultiTableIsMinimal ==
  (pc = "print" /\ 1 <= cards_in_hand /\ cards_in_hand <= cards_in_deck
                /\ cards_in_deck <= MaxDeck) =>
     LET all == HandsOf(cards_in_deck, cards_in_hand)
     IN /\ \A H \in all : Quads(H) < Len(best_scores)
        /\ \A n \in 0..(Len(best_scores) - 1) :
             LET with == {H \in all : Quads(H) = n}
             IN best_scores[n + 1] =
                  IF with = {} THEN cards_in_deck
                  ELSE CHOOSE m \in {Max(H) : H \in with} :
                         \A H \in with : m <= Max(H)

\* C5: in exact-target mode the search command reports a found hand only
\* when the hand it prints has exactly target quads, and reports that no hand
\* was found when best_score still has its initial value cards_in_deck.
C5_ReportMatchesResult ==
  (pc = "done" /\ command = "Search" /\ target_quads # NoTarget /\ cards_in_hand >= 1
   /\ output.message \in {"Found a hand.", "No hand found."}) =>
     /\ output.message = "Found a hand." =>
          (Cardinality(best_hand) = cards_in_hand /\ Quads(best_hand) = target_quads)
     /\ best_score = cards_in_deck => output.message = "No hand found."

\* C6: at every frame reached, and for every candidate evaluated in a
\* Finalize step, the raw count is exactly 3 times the number of quads of
\* the (candidate) hand.
C6_RawCountIsTripleQuadCount ==
  /\ stack # <<>> => Head(stack).quads = 3 * Quads(Head(stack).hand)
  /\ \A e \in evaluated : e.quads2 = 3 * Quads(e.hand)

C6_Witness ==
  /\ stack # <<>> /\ Head(stack).quads > 0
  /\ \E e \in evaluated : e.quads2 > 3

\* C7: no engine call is ever pending with a deck above 128 or a hand bigger
\* than the deck.
C7_EngineOnlyWithValidSizes ==
  stack # <<>> => (cards_in_deck <= DeckLimit /\ cards_in_hand <= cards_in_deck)

\* C10: at every frame reached, differences[d] is the number of unordered
\* pairs of the partial hand with XOR d, for every d in [0,128), so the
\* entries sum to k*(k-1)/2 for a hand of k cards.
C10_DifferenceTable ==
  stack # <<>> =>
    LET f == Head(stack)
        k == Cardinality(f.hand)
    IN /\ \A d \in 0..(TableSize - 1) : f.differences[d] = PairCount(f.hand, d)
       /\ 2 * SumTable(f.differences, 0, TableSize - 1) = k * (k - 1)

C10_Witness ==
  /\ stack # <<>>
  /\ Cardinality(Head(stack).hand) >= 4
  /\ \E d \in 0..(TableSize - 1) : Head(stack).differences[d] >= 2
  /\ Len(stack) >= 2 /\ stack[2].hand # Head(stack).hand

\* C8: each hand size in [initial_cards_in_hand, max_cards_in_hand] is claimed
\* by exactly one worker and searched and printed exactly once: none is
\* claimed twice and, when the command returns, none was skipped.
C8_EachHandSizeOnce ==
  pc \in {"scope", "done"} =>
    /\ \A v \in DOMAIN claims : claims[v] <= 1 /\ prints[v] <= 1
    /\ pc = "done" =>
         \A v \in initial_cards_in_hand..max_cards_in_hand :
            claims[v] = 1 /\ prints[v] = 1

\* C9: under fair scheduling every worker leaves its claim loop, so that the
\* scope joins and the command returns, and the print lock is always released.
C9_WorkersTerminate ==
  /\ <>(pc = "done")
  /\ (print_guard # 0) ~> (print_guard = 0)

=============================================================================
